---- MODULE Spec2Model ----
(***************************************************************************)
(* Model of the LLM layer of BERI (src/beri/src/lib/llm.ts): the module-   *)
(* level engine handle, initLLM with its worker path and main-thread       *)
(* fallback, generate with its streaming loop and trailing resetChat, and  *)
(* the exported resetChat.  Every await of the source is a suspension      *)
(* point; the code between two awaits is one atomic action.                *)
(***************************************************************************)
EXTENDS Integers, Sequences, FiniteSets, TLC

\* ---------------------------------------------------------------- bounds
\* chunks the runtime yields on one stream
MaxChunks == 2
\* generate calls started over a run
MaxCalls == 2
\* messages posted to the worker over a run
MaxMessages == 3
\* clicks on the context toggle of a message bubble over a run
MaxClicks == 3
\* initLLM calls started by one caller over a run
MaxInits == 1
\* progress reports of the runtime during one creation attempt
MaxReports == 2

\* ---------------------------------------------------------------- inputs
\* callers that may hold a pending initLLM / generate promise
InitCalls == {1, 2}
GenCalls == {1, 2}
\* a text is a sequence of characters; '' is the empty sequence
Fragments == {<<>>, <<"a">>, <<"b", "c">>}
\* chunk.choices[0]?.delta?.content: undefined, or a string (possibly '')
Chunks ==
  {[defined |-> FALSE, content |-> <<>>]}
    \cup {[defined |-> TRUE, content |-> f] : f \in Fragments}
Contexts == {<<"A">>, <<"B">>}
Queries == {<<"X">>}
\* report.progress of the runtime, in thousandths (0.0, 0.495, 1.0)
RawProgress == {0, 495, 1000}

\* the messages the main thread posts to the worker; the worker script does
\* not look into them
Messages == {"reload", "chatCompletion", "resetChat"}

\* ------------------------------------------------------ imported constants
LLM_MODEL == "LLM_MODEL"
CONTEXT_WINDOW_SIZE == "CONTEXT_WINDOW_SIZE"
MAX_TOKENS == "MAX_TOKENS"
TEMPERATURE == "TEMPERATURE"

\* the null engine handle
NoEngine == 0

VARIABLES
  engine,     \* the module-level handle: NoEngine or an index into runtimes
  runtimes,   \* every runtime instance created so far (worker or main-thread)
  ini,        \* per initLLM caller: position, progress sink log, outcome
  gen,        \* per generate caller: position, accumulator, sink log, outcome
  rst,        \* the last exported resetChat call
  initsStarted,  \* per initLLM caller: calls started
  callsStarted,
  everReady,  \* some initLLM call has resolved
  lastSettled,\* the initLLM caller whose call settled most recently
  probe,      \* the last checkWebGPU call
  relay,      \* the worker: messages posted to it, messages given to its handler
  bubble      \* one mounted MessageBubble: props, showContext, what it renders

vars ==
  <<engine, runtimes, ini, gen, rst, initsStarted, callsStarted, everReady,
    lastSettled, probe, relay, bubble>>

\* ---------------------------------------------------------------- helpers
Last(s) == s[Len(s)]

RECURSIVE Concat(_)
Concat(ss) == IF ss = <<>> THEN <<>> ELSE Head(ss) \o Concat(Tail(ss))

\* Math.round(report.progress * 100), progress given in thousandths
Percent(p) == (p + 5) \div 10

\* onProgress?.(percent, message): a supplied sink logs the event
OnProgress(call, percent, msg) ==
  IF call.sink THEN [call EXCEPT !.events = Append(@, <<percent, msg>>)] ELSE call

\* the adapter initProgressCallback
InitProgressCallback(call, p) == OnProgress(call, Percent(p), "report.text")

\* the options both creation calls pass
WorkerRequest == [model |-> LLM_MODEL, ctxWindow |-> CONTEXT_WINDOW_SIZE]
FallbackRequestWrong == [model |-> LLM_MODEL, ctxWindow |-> "default"]
FallbackRequest == [model |-> LLM_MODEL, ctxWindow |-> CONTEXT_WINDOW_SIZE]

\* a fresh runtime instance (a Worker with its engine, or a main-thread
\* engine); it stays alive until terminated or unloaded
NewRuntime(kind, req) ==
  [kind |-> kind, model |-> req.model, ctxWindow |-> req.ctxWindow,
   adapter |-> "initProgressCallback", loaded |-> FALSE, conv |-> <<>>,
   alive |-> TRUE]

IdleInit ==
  [pc |-> "idle", sink |-> FALSE, events |-> <<>>, lastRaw |-> 0, reports |-> 0,
   inst |-> NoEngine, path |-> "none", error |-> "none",
   before |-> NoEngine]

IdleGen ==
  [pc |-> "idle", prev |-> "idle", ctx |-> <<>>, query |-> <<>>, sink |-> FALSE,
   eng |-> NoEngine,
   request |-> <<>>, convAtSubmit |-> <<>>,
   produced |-> <<>>, delivered |-> <<>>, fullResponse |-> <<>>,
   exhausted |-> FALSE, resets |-> 0, result |-> <<>>, error |-> "none"]

IdleReset == [done |-> FALSE, issued |-> FALSE]

IdleProbe == [pc |-> "idle", hasGpu |-> FALSE, outcome |-> "none", result |-> FALSE]

IdleRelay == [posted |-> <<>>, inbox |-> <<>>, handled |-> <<>>]

Unmounted ==
  [mounted |-> FALSE,
   message |-> [role |-> "user", isStreaming |-> "undefined",
                sources |-> [defined |-> FALSE, items |-> <<>>],
                contextChunks |-> [defined |-> FALSE, items |-> <<>>]],
   showContext |-> FALSE, clicks |-> 0,
   view |-> [cursor |-> FALSE, sources |-> <<>>, toggle |-> FALSE,
             chunks |-> <<>>]]

Init ==
  /\ engine = NoEngine
  /\ runtimes = <<>>
  /\ ini = [i \in InitCalls |-> IdleInit]
  /\ gen = [g \in GenCalls |-> IdleGen]
  /\ rst = IdleReset
  /\ initsStarted = [i \in InitCalls |-> 0]
  /\ callsStarted = 0
  /\ everReady = FALSE
  /\ lastSettled = 0
  /\ probe = IdleProbe
  /\ relay = IdleRelay
  /\ bubble = Unmounted

\* ------------------------------------------------------------------ initLLM
InitSettled(i) == ini[i].pc \in {"idle", "done", "failed"}

\* catch (workerError): engine = new MLCEngine(...); engine.reload(...) is
\* called and awaited.  The handle is assigned before the load completes.
EnterFallbackWrong(i, call) ==
  /\ runtimes' = Append(runtimes, NewRuntime("main", FallbackRequest))
  /\ engine' = NoEngine
  /\ ini' = [ini EXCEPT ![i] =
       [call EXCEPT !.pc = "fallback", !.lastRaw = 0, !.reports = 0,
                    !.inst = Len(runtimes) + 1, !.path = "fallback"]]
EnterFallback(i, call) ==
  /\ runtimes' = Append(runtimes, NewRuntime("main", FallbackRequest))
  /\ engine' = Len(runtimes) + 1
  /\ ini' = [ini EXCEPT ![i] =
       [call EXCEPT !.pc = "fallback", !.lastRaw = 0, !.reports = 0,
                    !.inst = Len(runtimes) + 1, !.path = "fallback"]]

\* onProgress(0), then the try block up to its first await.  new Worker may
\* throw, in which case the catch block runs in the same turn.
InitStart(i, hasSink, workerThrows) ==
  /\ InitSettled(i)
  /\ initsStarted[i] < MaxInits
  /\ initsStarted' = [initsStarted EXCEPT ![i] = @ + 1]
  /\ LET call == OnProgress([IdleInit EXCEPT !.sink = hasSink, !.before = engine],
                            0, "Initialising language model...") IN
     IF workerThrows
       THEN EnterFallback(i, call)
       ELSE /\ runtimes' = Append(runtimes, NewRuntime("worker", WorkerRequest))
            /\ ini' = [ini EXCEPT ![i] =
                 [call EXCEPT !.pc = "worker",
                              !.inst = Len(runtimes) + 1, !.path = "worker"]]
            /\ UNCHANGED engine
  /\ UNCHANGED <<lastSettled, probe, relay, bubble, gen, rst, callsStarted, everReady>>

\* the runtime reports progress during a creation attempt (worker or reload);
\* within one attempt the runtime's progress does not go back
InitReport(i, p) ==
  /\ ini[i].pc \in {"worker", "fallback"}
  /\ ini[i].reports < MaxReports
  /\ p >= ini[i].lastRaw
  /\ ini' = [ini EXCEPT ![i] =
       [InitProgressCallback(@, p) EXCEPT !.lastRaw = p, !.reports = @ + 1]]
  /\ UNCHANGED <<lastSettled, probe, relay, bubble, engine, runtimes, gen, rst, initsStarted, callsStarted, everReady>>

\* onProgress(100, 'Language model ready') and return
FinishInitWrong(call) ==
  IF engine = call.inst
    THEN [OnProgress(call, 100, "Language model ready") EXCEPT !.pc = "done"]
    ELSE [call EXCEPT !.pc = "done"]
FinishInit(call) ==
  [OnProgress(call, 100, "Language model ready") EXCEPT !.pc = "done"]

\* CreateWebWorkerMLCEngine resolves: engine = <worker engine>
InitWorkerOkWrong(i) ==
  /\ ini[i].pc = "worker"
  /\ engine' = IF engine = NoEngine THEN ini[i].inst ELSE engine
  /\ runtimes' = [runtimes EXCEPT ![ini[i].inst].loaded = TRUE]
  /\ ini' = [ini EXCEPT ![i] = FinishInit(@)]
  /\ everReady' = TRUE
  /\ lastSettled' = i
  /\ UNCHANGED <<probe, relay, bubble, gen, rst, initsStarted, callsStarted>>
InitWorkerOk(i) ==
  /\ ini[i].pc = "worker"
  /\ engine' = ini[i].inst
  /\ runtimes' = [runtimes EXCEPT ![ini[i].inst].loaded = TRUE]
  /\ ini' = [ini EXCEPT ![i] = FinishInit(@)]
  /\ everReady' = TRUE
  /\ lastSettled' = i
  /\ UNCHANGED <<probe, relay, bubble, gen, rst, initsStarted, callsStarted>>

\* CreateWebWorkerMLCEngine rejects: the catch block up to await reload
InitWorkerFail(i) ==
  /\ ini[i].pc = "worker"
  /\ EnterFallback(i, ini[i])
  /\ UNCHANGED <<lastSettled, probe, relay, bubble, gen, rst, initsStarted, callsStarted, everReady>>

\* engine.reload resolves
InitFallbackOk(i) ==
  /\ ini[i].pc = "fallback"
  /\ runtimes' = [runtimes EXCEPT ![ini[i].inst].loaded = TRUE]
  /\ ini' = [ini EXCEPT ![i] = FinishInit(@)]
  /\ everReady' = TRUE
  /\ lastSettled' = i
  /\ UNCHANGED <<probe, relay, bubble, engine, gen, rst, initsStarted, callsStarted>>

\* the rejection of engine.reload is not caught: line 77 is not reached
RethrowReloadWrong(call) ==
  [OnProgress(call, 100, "Language model ready")
     EXCEPT !.pc = "failed", !.error = "reloadError"]
RethrowReload(call) == [call EXCEPT !.pc = "failed", !.error = "reloadError"]

\* engine.reload rejects: the error leaves initLLM
InitFallbackFail(i) ==
  /\ ini[i].pc = "fallback"
  /\ ini' = [ini EXCEPT ![i] = RethrowReload(@)]
  /\ lastSettled' = i
  /\ UNCHANGED <<probe, relay, bubble, engine, runtimes, gen, rst, initsStarted, callsStarted, everReady>>

\* ----------------------------------------------------------------- generate
GenSettled(g) == gen[g].pc \in {"idle", "returned", "notReady", "aborted"}

\* the template literal of generate: instruction, labelled context section,
\* labelled question section, answer marker
BuildPromptWrong(context, query) ==
  <<"You are BERI, ... Always cite the source policy.", "POLICY INFORMATION:">>
    \o query \o <<"QUESTION: ">> \o context \o <<"ANSWER:">>
BuildPrompt(context, query) ==
  <<"You are BERI, ... Always cite the source policy.", "POLICY INFORMATION:">>
    \o context \o <<"QUESTION: ">> \o query \o <<"ANSWER:">>

\* the argument of engine.chat.completions.create
Request(context, query) ==
  [messages |-> <<[role |-> "user", content |-> BuildPrompt(context, query)]>>,
   max_tokens |-> MAX_TOKENS, temperature |-> TEMPERATURE, stream |-> TRUE]

\* if (!engine) throw new Error('LLM not initialised')
ThrowNotReadyWrong(call) == [call EXCEPT !.pc = "returned"]
ThrowNotReady(call) ==
  [call EXCEPT !.pc = "notReady", !.error = "LLM not initialised"]

\* engine.resetChat() of the runtime: clears its conversation
EngineResetChatWrong(rt, e) == rt
EngineResetChat(rt, e) == [rt EXCEPT ![e].conv = <<>>]

\* entry of generate up to await engine.chat.completions.create(...)
GenStart(g, context, query, sink) ==
  /\ GenSettled(g)
  /\ callsStarted < MaxCalls
  /\ callsStarted' = callsStarted + 1
  /\ LET call == [IdleGen EXCEPT !.prev = gen[g].pc, !.ctx = context,
                                 !.query = query, !.sink = sink] IN
     IF engine = NoEngine
       THEN gen' = [gen EXCEPT ![g] = ThrowNotReady(call)]
       ELSE gen' = [gen EXCEPT ![g] =
              [call EXCEPT !.pc = "creating", !.eng = engine,
                           !.request = Request(context, query),
                           !.convAtSubmit = runtimes[engine].conv]]
  /\ UNCHANGED <<lastSettled, probe, relay, bubble, engine, runtimes, ini, rst, initsStarted, everReady>>

\* the runtime accepts the request and hands back the chunk generator; only
\* a runtime whose model is loaded can do so
GenCreateOk(g) ==
  /\ gen[g].pc = "creating"
  /\ runtimes[gen[g].eng].loaded
  /\ runtimes' = [runtimes EXCEPT ![gen[g].eng].conv = @ \o gen[g].request.messages]
  /\ gen' = [gen EXCEPT ![g].pc = "streaming"]
  /\ UNCHANGED <<lastSettled, probe, relay, bubble, engine, ini, rst, initsStarted, callsStarted, everReady>>

\* engine.chat.completions.create rejects
GenCreateFail(g) ==
  /\ gen[g].pc = "creating"
  /\ gen' = [gen EXCEPT ![g].pc = "aborted", ![g].error = "createError"]
  /\ UNCHANGED <<lastSettled, probe, relay, bubble, engine, runtimes, ini, rst, initsStarted, callsStarted, everReady>>

\* chunk.choices[0]?.delta?.content || ''
TokenOf(chunk) == IF chunk.defined THEN chunk.content ELSE <<>>

\* if (token): the empty string is falsy
TruthyWrong(token) == TRUE
Truthy(token) == token # <<>>

\* onToken?.(token)
OnTokenWrong(call, token) ==
  IF call.sink THEN [call EXCEPT !.delivered = <<token>> \o @] ELSE call
OnToken(call, token) ==
  IF call.sink THEN [call EXCEPT !.delivered = Append(@, token)] ELSE call

\* one iteration of the for-await loop
LoopBodyWrong(call, chunk) ==
  LET token == TokenOf(chunk)
      pulled == [call EXCEPT !.produced = Append(@, chunk)] IN
  IF Truthy(token)
    THEN OnToken([pulled EXCEPT !.fullResponse = gen[1].fullResponse \o token],
                 token)
    ELSE pulled
LoopBody(call, chunk) ==
  LET token == TokenOf(chunk)
      pulled == [call EXCEPT !.produced = Append(@, chunk)] IN
  IF Truthy(token)
    THEN OnToken([pulled EXCEPT !.fullResponse = @ \o token], token)
    ELSE pulled

\* the stream yields a chunk; the sink, when called, may throw
GenChunk(g, chunk, sinkThrows) ==
  /\ gen[g].pc = "streaming"
  /\ Len(gen[g].produced) < MaxChunks
  /\ sinkThrows => (gen[g].sink /\ Truthy(TokenOf(chunk)))
  /\ gen' = [gen EXCEPT ![g] =
       IF sinkThrows
         THEN [LoopBody(@, chunk) EXCEPT !.pc = "aborted", !.error = "sinkError"]
         ELSE LoopBody(@, chunk)]
  /\ UNCHANGED <<lastSettled, probe, relay, bubble, engine, runtimes, ini, rst, initsStarted, callsStarted, everReady>>

\* the stream terminates abnormally: the error leaves generate
GenStreamFail(g) ==
  /\ gen[g].pc = "streaming"
  /\ gen' = [gen EXCEPT ![g].pc = "aborted", ![g].error = "streamError"]
  /\ UNCHANGED <<lastSettled, probe, relay, bubble, engine, runtimes, ini, rst, initsStarted, callsStarted, everReady>>

\* the loop has exited: await engine.resetChat() is issued
AfterLoopWrong(call) == [call EXCEPT !.pc = "resetting", !.exhausted = TRUE]
AfterLoop(call) ==
  [call EXCEPT !.pc = "resetting", !.exhausted = TRUE, !.resets = @ + 1]

\* the stream is exhausted: the loop exits and engine.resetChat() is called
\* on the handle as it is now
GenStreamEnd(g) ==
  /\ gen[g].pc = "streaming"
  /\ runtimes' = EngineResetChat(runtimes, engine)
  /\ gen' = [gen EXCEPT ![g] = AfterLoop(@)]
  /\ UNCHANGED <<lastSettled, probe, relay, bubble, engine, ini, rst, initsStarted, callsStarted, everReady>>

\* return fullResponse
GenReturn(g) ==
  /\ gen[g].pc = "resetting"
  /\ gen' = [gen EXCEPT ![g].pc = "returned", ![g].result = gen[g].fullResponse]
  /\ UNCHANGED <<lastSettled, probe, relay, bubble, engine, runtimes, ini, rst, initsStarted, callsStarted, everReady>>

\* ---------------------------------------------------------------- resetChat
\* if (engine) await engine.resetChat()
ResetChatEffectWrong(rt, e) ==
  IF e = NoEngine THEN rt ELSE [rt EXCEPT ![e].conv = IF @ = <<>> THEN @ ELSE Tail(@)]
ResetChatEffect(rt, e) == IF e = NoEngine THEN rt ELSE EngineResetChat(rt, e)

ResetChat ==
  /\ runtimes' = ResetChatEffect(runtimes, engine)
  /\ rst' = [done |-> TRUE, issued |-> engine # NoEngine]
  /\ UNCHANGED <<lastSettled, probe, relay, bubble, engine, ini, gen, initsStarted, callsStarted, everReady>>

\* -------------------------------------------------------------- checkWebGPU
\* what navigator.gpu.requestAdapter() can do: throw in the call, or return
\* a promise that rejects, resolves to null, or resolves to an adapter
AdapterOutcomes == {"throw", "reject", "null", "adapter"}

\* return adapter !== null
AdapterObtained(outcome) == outcome = "adapter"

\* catch { return false }
ProbeCatchWrong(p, outcome) == [p EXCEPT !.pc = "failed", !.outcome = outcome]
ProbeCatch(p, outcome) ==
  [p EXCEPT !.pc = "done", !.outcome = outcome, !.result = FALSE]

\* entry of checkWebGPU up to its return or its await
ProbeStart(hasGpu, throws) ==
  /\ probe.pc # "awaiting"
  /\ throws => hasGpu
  /\ LET p == [IdleProbe EXCEPT !.hasGpu = hasGpu] IN
     probe' = IF ~hasGpu THEN [p EXCEPT !.pc = "done", !.result = FALSE]
              ELSE IF throws THEN ProbeCatch(p, "throw")
              ELSE [p EXCEPT !.pc = "awaiting"]
  /\ UNCHANGED <<engine, runtimes, ini, gen, rst, initsStarted, callsStarted,
                 everReady, lastSettled, relay, bubble>>

\* the adapter promise settles
ProbeSettle(outcome) ==
  /\ probe.pc = "awaiting"
  /\ outcome # "throw"
  /\ probe' = IF outcome = "reject" THEN ProbeCatch(probe, outcome)
              ELSE [probe EXCEPT !.pc = "done", !.outcome = outcome,
                                 !.result = AdapterObtained(outcome)]
  /\ UNCHANGED <<engine, runtimes, ini, gen, rst, initsStarted, callsStarted,
                 everReady, lastSettled, relay, bubble>>

ProbeStep ==
  \/ \E hasGpu \in BOOLEAN, throws \in BOOLEAN : ProbeStart(hasGpu, throws)
  \/ \E outcome \in AdapterOutcomes : ProbeSettle(outcome)

\* --------------------------------------------------------------- llm.worker
\* the main thread posts a message to the worker; the browser queues it
PostMessage(msg) ==
  /\ Len(relay.posted) < MaxMessages
  /\ relay' = [relay EXCEPT !.posted = Append(@, msg), !.inbox = Append(@, msg)]
  /\ UNCHANGED <<engine, runtimes, ini, gen, rst, initsStarted, callsStarted,
                 everReady, lastSettled, probe, bubble>>

\* the body of self.onmessage: the calls it makes on the handler for msg
OnMessageWrong(msg) == IF msg = "resetChat" THEN <<>> ELSE <<msg>>
OnMessage(msg) == <<msg>>

\* the browser delivers the oldest queued message to self.onmessage
WorkerOnMessage ==
  /\ relay.inbox # <<>>
  /\ relay' = [relay EXCEPT !.inbox = Tail(@),
                            !.handled = @ \o OnMessage(Head(relay.inbox))]
  /\ UNCHANGED <<engine, runtimes, ini, gen, rst, initsStarted, callsStarted,
                 everReady, lastSettled, probe, bubble>>

\* ------------------------------------------------------------ MessageBubble
\* an optional list prop: undefined, empty, or with entries
SourceLists ==
  {[defined |-> FALSE, items |-> <<>>], [defined |-> TRUE, items |-> <<>>],
   [defined |-> TRUE, items |-> <<"s1", "s2">>]}
ChunkLists ==
  {[defined |-> FALSE, items |-> <<>>], [defined |-> TRUE, items |-> <<>>],
   [defined |-> TRUE, items |-> <<"c1", "c2">>]}

\* the message prop
BubbleMessages ==
  [role : {"user", "assistant"}, isStreaming : {"undefined", "false", "true"},
   sources : SourceLists, contextChunks : ChunkLists]

\* !isUser && list && list.length > 0 && !message.isStreaming
SectionShownWrong(message, list) ==
  /\ message.role # "user"
  /\ list.defined
  /\ Len(list.items) > 0
SectionShown(message, list) ==
  /\ message.role # "user"
  /\ list.defined
  /\ Len(list.items) > 0
  /\ message.isStreaming # "true"

\* what the component returns for a message and a value of showContext
Render(message, showContext) ==
  [cursor |-> message.isStreaming = "true",
   sources |-> IF SectionShown(message, message.sources)
                 THEN message.sources.items ELSE <<>>,
   toggle |-> SectionShown(message, message.contextChunks),
   chunks |-> IF SectionShown(message, message.contextChunks) /\ showContext
                THEN message.contextChunks.items ELSE <<>>]

\* first render: useState(false)
BubbleMount(message) ==
  /\ ~bubble.mounted
  /\ bubble' = [mounted |-> TRUE, message |-> message, showContext |-> FALSE,
                clicks |-> 0, view |-> Render(message, FALSE)]
  /\ UNCHANGED <<engine, runtimes, ini, gen, rst, initsStarted, callsStarted,
                 everReady, lastSettled, probe, relay>>

\* the parent renders the bubble again with a message; state is kept
BubbleUpdate(message) ==
  /\ bubble.mounted
  /\ bubble' = [bubble EXCEPT !.message = message,
                              !.view = Render(message, bubble.showContext)]
  /\ UNCHANGED <<engine, runtimes, ini, gen, rst, initsStarted, callsStarted,
                 everReady, lastSettled, probe, relay>>

\* onClick of the toggle button: setShowContext(!showContext), then render
BubbleClick ==
  /\ bubble.mounted
  /\ bubble.view.toggle
  /\ bubble.clicks < MaxClicks
  /\ bubble' = [bubble EXCEPT !.showContext = ~bubble.showContext,
                              !.clicks = @ + 1,
                              !.view = Render(bubble.message, ~bubble.showContext)]
  /\ UNCHANGED <<engine, runtimes, ini, gen, rst, initsStarted, callsStarted,
                 everReady, lastSettled, probe, relay>>

\* ----------------------------------------------------------- specifications
InitStep(i) ==
  \/ \E hasSink \in BOOLEAN, workerThrows \in BOOLEAN :
       InitStart(i, hasSink, workerThrows)
  \/ \E p \in RawProgress : InitReport(i, p)
  \/ InitWorkerOk(i)
  \/ InitWorkerFail(i)
  \/ InitFallbackOk(i)
  \/ InitFallbackFail(i)

\* initLLM() called without a progress callback, the runtime reporting nothing
QuietInitStep(i) ==
  \/ \E workerThrows \in BOOLEAN : InitStart(i, FALSE, workerThrows)
  \/ InitWorkerOk(i)
  \/ InitWorkerFail(i)
  \/ InitFallbackOk(i)
  \/ InitFallbackFail(i)

\* the steps of generate, the runtime drawing its chunks from the given set
GenStepOver(g, chunks) ==
  \/ \E context \in Contexts, query \in Queries, sink \in BOOLEAN :
       GenStart(g, context, query, sink)
  \/ GenCreateOk(g)
  \/ GenCreateFail(g)
  \/ \E chunk \in chunks, sinkThrows \in BOOLEAN : GenChunk(g, chunk, sinkThrows)
  \/ GenStreamFail(g)
  \/ GenStreamEnd(g)
  \/ GenReturn(g)

GenStep(g) == GenStepOver(g, Chunks)

\* one caller of each operation at a time: calls of one operation never overlap
Next ==
  \/ InitStep(1)
  \/ GenStep(1)
  \/ ResetChat

Spec == Init /\ [][Next]_vars

\* initLLM alone: nothing in it reads what generate or resetChat write
NextInit == InitStep(1)

SpecInit == Init /\ [][NextInit]_vars

\* generate against an initLLM whose progress goes unobserved: the progress
\* log is written by initLLM only and read by nothing
NextGen ==
  \/ QuietInitStep(1)
  \/ GenStep(1)

SpecGen == Init /\ [][NextGen]_vars

\* turns of generate and resetChat calls; the conversation of an engine does
\* not depend on what the stream carries, so every chunk is the same fragment
TurnChunks == {[defined |-> TRUE, content |-> <<"a">>]}

NextTurns ==
  \/ QuietInitStep(1)
  \/ GenStepOver(1, TurnChunks)
  \/ ResetChat

SpecTurns == Init /\ [][NextTurns]_vars

\* the context and question texts the prompt is built from in the prompt
\* specification: empty, longer, and texts that read like the template's own
\* labels
PromptContexts == {<<>>, <<"A", "B">>, <<"QUESTION: ">>}
PromptQueries == {<<"X">>, <<"ANSWER:">>}

\* generate called by caller g with any of these texts, no onToken
PromptStep(g) ==
  \/ \E context \in PromptContexts, query \in PromptQueries :
       GenStart(g, context, query, FALSE)
  \/ GenCreateOk(g)
  \/ GenCreateFail(g)
  \/ \E chunk \in TurnChunks : GenChunk(g, chunk, FALSE)
  \/ GenStreamFail(g)
  \/ GenStreamEnd(g)
  \/ GenReturn(g)

NextPrompt ==
  \/ QuietInitStep(1)
  \/ PromptStep(1)

SpecPrompt == Init /\ [][NextPrompt]_vars

\* the capability probe next to initLLM
NextProbe ==
  \/ ProbeStep
  \/ InitStep(1)

SpecProbe == Init /\ [][NextProbe]_vars

\* the worker script alone: messages posted to it and its listener
NextRelay ==
  \/ \E msg \in Messages : PostMessage(msg)
  \/ WorkerOnMessage

SpecRelay == Init /\ [][NextRelay]_vars

\* initLLM calls that never overlap: a call starts only when no other call
\* is pending, the callers taking turns in the order 1, 2, 1, 2, ...
SerialInitStep(i) ==
  \/ /\ \A j \in InitCalls \ {i} : InitSettled(j)
     /\ \A j \in InitCalls :
          initsStarted[j] >= initsStarted[i] + (IF j < i THEN 1 ELSE 0)
     /\ \E workerThrows \in BOOLEAN : InitStart(i, FALSE, workerThrows)
  \/ InitWorkerOk(i)
  \/ InitWorkerFail(i)
  \/ InitFallbackOk(i)
  \/ InitFallbackFail(i)

\* generate called without onToken, one context and one query, on streams
\* that end or break before any chunk
PlainGenStep(g) ==
  \/ GenStart(g, <<"A">>, <<"X">>, FALSE)
  \/ GenCreateOk(g)
  \/ GenCreateFail(g)
  \/ GenStreamFail(g)
  \/ GenStreamEnd(g)
  \/ GenReturn(g)

NextLife ==
  \/ \E i \in InitCalls : SerialInitStep(i)
  \/ PlainGenStep(1)
  \/ ResetChat

SpecLife == Init /\ [][NextLife]_vars

\* the chunks the runtime yields on the stream of each generate caller in
\* the overlap specification: different texts on the two streams
OverlapChunks(g) ==
  IF g = 1 THEN {[defined |-> TRUE, content |-> <<"a">>]}
  ELSE {[defined |-> TRUE, content |-> <<"b", "c">>]}

\* generate called with onToken by caller g
OverlapGenStep(g) ==
  \/ GenStart(g, <<"A">>, <<"X">>, TRUE)
  \/ GenCreateOk(g)
  \/ GenCreateFail(g)
  \/ \E chunk \in OverlapChunks(g) : GenChunk(g, chunk, FALSE)
  \/ GenStreamFail(g)
  \/ GenStreamEnd(g)
  \/ GenReturn(g)

\* two callers of generate whose calls may overlap
NextOverlap ==
  \/ QuietInitStep(1)
  \/ \E g \in GenCalls : OverlapGenStep(g)

SpecOverlap == Init /\ [][NextOverlap]_vars

\* initLLM called with or without a progress callback, the runtime reporting
\* no progress of its own
SilentInitStep(i) ==
  \/ \E hasSink \in BOOLEAN, workerThrows \in BOOLEAN :
       InitStart(i, hasSink, workerThrows)
  \/ InitWorkerOk(i)
  \/ InitWorkerFail(i)
  \/ InitFallbackOk(i)
  \/ InitFallbackFail(i)

\* two callers of initLLM whose calls may overlap
NextInitOverlap == \E i \in InitCalls : SilentInitStep(i)

SpecInitOverlap == Init /\ [][NextInitOverlap]_vars

\* one message bubble: mounted, rendered again with new props, clicked
NextBubble ==
  \/ \E message \in BubbleMessages : BubbleMount(message)
  \/ \E message \in BubbleMessages : BubbleUpdate(message)
  \/ BubbleClick

SpecBubble == Init /\ [][NextBubble]_vars

\* ------------------------------------------------------------------- claims
\* a generate call is entered in this step
GenCalled == callsStarted' = callsStarted + 1

\* the percent values of a progress log
Percents(events) == [k \in 1..Len(events) |-> events[k][1]]

NonDecreasing(ns) == \A k \in 1..(Len(ns) - 1) : ns[k] <= ns[k + 1]

\* the non-empty fragments among the chunks the runtime produced, in order
NonEmptyProduced(produced) ==
  LET d == SelectSeq(produced, LAMBDA c : c.defined /\ c.content # <<>>) IN
  [k \in 1..Len(d) |-> d[k].content]

\* C1: a generate call entered while the engine handle is absent fails with
\* 'LLM not initialised' and has no side effect: it builds and submits no
\* request, pulls no chunk, never invokes onToken, issues no reset, and the
\* step leaves the handle and every runtime as they were.
C1_NotReadyState ==
  \A g \in GenCalls :
    (gen[g].pc # "idle" /\ gen[g].eng = NoEngine) =>
      /\ gen[g].pc = "notReady"
      /\ gen[g].error = "LLM not initialised"
      /\ gen[g].request = <<>>
      /\ gen[g].produced = <<>>
      /\ gen[g].delivered = <<>>
      /\ gen[g].resets = 0

C1_NotReadyStep ==
  (GenCalled /\ engine = NoEngine) =>
    /\ \E g \in GenCalls :
         /\ gen'[g].pc = "notReady"
         /\ \A h \in GenCalls \ {g} : gen'[h] = gen[h]
    /\ engine' = engine
    /\ runtimes' = runtimes

C1_GenerateBeforeInit == []C1_NotReadyState /\ [][C1_NotReadyStep]_vars

C1_Witness ==
  \E g \in GenCalls :
    gen[g].pc = "notReady" /\ gen[g].sink /\ engine = NoEngine /\ callsStarted = 1

\* C2: a generate call entered while no initLLM call has yet resolved fails
\* with 'LLM not initialised'.
C2_NotReadyStep ==
  (GenCalled /\ ~everReady) =>
    \E g \in GenCalls : gen'[g].pc = "notReady" /\ gen'[g].eng = NoEngine

C2_NotReadyUntilInitCompleted == [][C2_NotReadyStep]_vars

\* C3: when a generate call given a sink returns, the returned string is the
\* concatenation, in order, of the fragments passed to onToken; these are
\* exactly the non-empty fragments the runtime produced, each once; and no
\* fragment ever passed to onToken is empty.
C3_ResultIsConcatOfDelivered ==
  \A g \in GenCalls :
    /\ \A k \in 1..Len(gen[g].delivered) : gen[g].delivered[k] # <<>>
    /\ (gen[g].pc = "returned" /\ gen[g].sink) =>
         /\ gen[g].result = Concat(gen[g].delivered)
         /\ gen[g].delivered = NonEmptyProduced(gen[g].produced)

C3_Witness ==
  \E g \in GenCalls :
    /\ gen[g].pc = "returned"
    /\ gen[g].sink
    /\ Len(gen[g].delivered) = 1
    /\ Len(gen[g].produced) = 2
    /\ gen[g].result = <<"b", "c">>

\* C4: a generate call that ends with an error after its stream was opened
\* (the stream broke, or onToken threw) has issued its engine reset.
C4_ResetOnEveryExit ==
  \A g \in GenCalls :
    (gen[g].pc = "aborted" /\ gen[g].error \in {"streamError", "sinkError"}) =>
      gen[g].resets = 1

\* C5: a generate call whose stream was consumed to the end issues exactly one
\* reset, after the loop has exited and before it returns; while the stream is
\* still being consumed no reset has been issued.
C5_OneResetAfterExhaustion ==
  \A g \in GenCalls :
    /\ gen[g].resets <= 1
    /\ gen[g].exhausted => gen[g].resets = 1
    /\ gen[g].resets = 1 => (gen[g].exhausted /\ gen[g].pc \in {"resetting", "returned"})
    /\ gen[g].pc = "returned" => (gen[g].exhausted /\ gen[g].resets = 1)
    /\ gen[g].pc \in {"creating", "streaming"} => gen[g].resets = 0

C5_Witness ==
  \E g \in GenCalls :
    /\ gen[g].pc = "returned"
    /\ gen[g].resets = 1
    /\ Len(gen[g].produced) = 2
    /\ Len(gen[g].delivered) = 2

\* C6: in the calls of one caller, which never overlap, a call that follows no
\* call or a call that returned finds the engine's conversation empty when it
\* submits its request, and the request is the one message built from the
\* call's own context and query.
C6_StatelessPerTurn ==
  \A g \in GenCalls :
    (gen[g].pc \notin {"idle", "notReady"} /\ gen[g].prev \in {"idle", "returned"}) =>
      /\ gen[g].convAtSubmit = <<>>
      /\ Len(gen[g].request.messages) = 1
      /\ gen[g].request.messages[1].content = BuildPrompt(gen[g].ctx, gen[g].query)
      /\ gen[g].pc = "streaming" =>
           \A k \in 1..Len(runtimes[gen[g].eng].conv) :
             runtimes[gen[g].eng].conv[k] = gen[g].request.messages[1]

C6_Witness ==
  \E g \in GenCalls :
    /\ gen[g].prev = "returned"
    /\ gen[g].pc = "streaming"
    /\ callsStarted = 2
    /\ runtimes[gen[g].eng].conv = gen[g].request.messages

\* C7: the percent values one initLLM call delivers to its sink never
\* decrease: the first is 0 and, once the call has resolved, the last is 100.
C7_ProgressNonDecreasing ==
  \A i \in InitCalls :
    (ini[i].sink /\ ini[i].pc # "idle") =>
      /\ ini[i].events[1][1] = 0
      /\ NonDecreasing(Percents(ini[i].events))
      /\ ini[i].pc = "done" => Last(ini[i].events)[1] = 100

\* C8: an initLLM call that resolved through the fallback carries no error;
\* its main-thread engine was created with the model, context window and
\* progress adapter of the worker request, is loaded and is the engine handle;
\* the last event the sink received is (100, 'Language model ready').
C8_FallbackReachesReady ==
  \A i \in InitCalls :
    (ini[i].pc = "done" /\ ini[i].path = "fallback") =>
      /\ ini[i].error = "none"
      /\ engine = ini[i].inst
      /\ runtimes[engine].kind = "main"
      /\ runtimes[engine].loaded
      /\ runtimes[engine].model = WorkerRequest.model
      /\ runtimes[engine].ctxWindow = WorkerRequest.ctxWindow
      /\ runtimes[engine].adapter = NewRuntime("worker", WorkerRequest).adapter
      /\ ini[i].sink => Last(ini[i].events) = <<100, "Language model ready">>

C8_Witness ==
  \E i \in InitCalls :
    /\ ini[i].pc = "done"
    /\ ini[i].path = "fallback"
    /\ ini[i].sink
    /\ Len(runtimes) = 2
    /\ Len(ini[i].events) >= 4

\* C9: an initLLM call fails only after the fallback load failed, it carries
\* the error of the fallback load, and its sink never received the terminal
\* 'Language model ready' event.
C9_BothFailPropagates ==
  \A i \in InitCalls :
    /\ ini[i].pc = "failed" =>
         /\ ini[i].path = "fallback"
         /\ ini[i].error = "reloadError"
         /\ \A k \in 1..Len(ini[i].events) :
              ini[i].events[k][2] # "Language model ready"
    /\ ini[i].error # "none" => ini[i].pc = "failed"

C9_Witness ==
  \E i \in InitCalls :
    /\ ini[i].pc = "failed"
    /\ ini[i].sink
    /\ Len(runtimes) = 2
    /\ Len(ini[i].events) >= 2

\* C10: resetChat returns without touching anything when there is no handle;
\* with a handle it empties the conversation of that engine and changes
\* nothing else, the handle included; applying it twice gives what applying
\* it once gives.
C10_ResetEffect ==
  LET once == ResetChatEffect(runtimes, engine) IN
  /\ ResetChatEffect(once, engine) = once
  /\ engine = NoEngine => once = runtimes
  /\ engine # NoEngine =>
       /\ once[engine].conv = <<>>
       /\ once = [runtimes EXCEPT ![engine].conv = <<>>]
  /\ rst.issued => (rst.done /\ engine # NoEngine)

C10_ResetStep ==
  rst' # rst =>
    /\ rst'.done
    /\ rst'.issued = (engine # NoEngine)
    /\ engine' = engine
    /\ gen' = gen
    /\ ini' = ini
    /\ runtimes' = ResetChatEffect(runtimes, engine)
    /\ engine = NoEngine => runtimes' = runtimes

C10_ResetChat == []C10_ResetEffect /\ [][C10_ResetStep]_vars

C10_Witness ==
  \E g \in GenCalls :
    /\ rst.done
    /\ rst.issued
    /\ gen[g].pc = "streaming"
    /\ gen[g].eng = engine
    /\ runtimes[engine].conv = <<>>

\* ---------------------------------------------------------------------- C11
\* the runtime instances created and not yet terminated or unloaded
Alive == {r \in DOMAIN runtimes : runtimes[r].alive}

\* C11: at most one runtime instance is alive at any time, and once the
\* handle is assigned the instance it refers to is the only one alive.
C11_AtMostOneRuntime ==
  /\ Cardinality(Alive) <= 1
  /\ engine # NoEngine => Alive = {engine}

\* ---------------------------------------------------------------------- C12
\* the prompt a generate call submitted
PromptOf(call) == call.request.messages[1].content

Submitted(call) == call.request # <<>>

\* the part of a prompt after its context section of the given length
AfterContext(prompt, n) == SubSeq(prompt, 3 + n, Len(prompt))

C12_Structure(call) ==
  LET prompt == PromptOf(call)
      n == Len(call.ctx) IN
    /\ Len(call.request.messages) = 1
    /\ Len(prompt) = 4 + n + Len(call.query)
    /\ prompt[1] = "You are BERI, ... Always cite the source policy."
    /\ prompt[2] = "POLICY INFORMATION:"
    /\ SubSeq(prompt, 3, 2 + n) = call.ctx
    /\ prompt[3 + n] = "QUESTION: "
    /\ SubSeq(prompt, 4 + n, 3 + n + Len(call.query)) = call.query
    /\ Last(prompt) = "ANSWER:"

\* C12: the submitted prompt is the fixed instruction, the labelled context
\* section holding the context verbatim, the labelled question section
\* holding the query verbatim, and the answer marker last; the prompt is
\* the same whenever the inputs are the same, and the prompt for the same
\* query and any other context differs from it only in the context section.
C12_PromptStructure ==
  \A g \in GenCalls : Submitted(gen[g]) =>
    /\ C12_Structure(gen[g])
    /\ \A context \in PromptContexts :
         LET other == BuildPrompt(context, gen[g].query) IN
           /\ SubSeq(other, 1, 2) = SubSeq(PromptOf(gen[g]), 1, 2)
           /\ AfterContext(other, Len(context))
                = AfterContext(PromptOf(gen[g]), Len(gen[g].ctx))
           /\ SubSeq(other, 3, 2 + Len(context)) = context
           /\ context = gen[g].ctx <=> other = PromptOf(gen[g])

\* a call submitted a context and a query that read like the template's own
\* labels
C12_Witness ==
  \E g \in GenCalls :
    /\ Submitted(gen[g])
    /\ gen[g].ctx = <<"QUESTION: ">>
    /\ gen[g].query = <<"ANSWER:">>
    /\ Len(PromptOf(gen[g])) = 6

\* ---------------------------------------------------------------------- C13
C13_NothingHeld ==
  \A g \in GenCalls :
    gen[g].sink => gen[g].delivered = NonEmptyProduced(gen[g].produced)

C13_PullStep ==
  \A g \in GenCalls :
    Len(gen'[g].produced) > Len(gen[g].produced) =>
      /\ Len(gen'[g].produced) = Len(gen[g].produced) + 1
      /\ SubSeq(gen'[g].produced, 1, Len(gen[g].produced)) = gen[g].produced
      /\ LET token == TokenOf(Last(gen'[g].produced)) IN
           gen'[g].delivered =
             IF gen[g].sink /\ token # <<>>
               THEN Append(gen[g].delivered, token)
               ELSE gen[g].delivered

\* C13: fragments reach onToken in the order the runtime produced them, one
\* pull at a time: at every moment between steps every non-empty fragment
\* pulled so far has already been handed to onToken, in production order, so
\* the next fragment is pulled only after onToken was called for the
\* previous one and no fragment is held back.
C13_DeliveryInOrder == []C13_NothingHeld /\ [][C13_PullStep]_vars

\* mid-stream, two different fragments delivered in production order
C13_Witness ==
  \E g \in GenCalls :
    /\ gen[g].pc = "streaming"
    /\ gen[g].sink
    /\ gen[g].delivered = <<<<"a">>, <<"b", "c">>>>
    /\ Len(gen[g].produced) = 2

\* ---------------------------------------------------------------------- C14
C14_ProbeResult ==
  /\ probe.pc \in {"idle", "awaiting", "done"}
  /\ probe.pc = "done" =>
       /\ probe.result = (probe.hasGpu /\ probe.outcome = "adapter")
       /\ ~probe.hasGpu => probe.outcome = "none"
  /\ (InitSettled(1) /\ initsStarted[1] < MaxInits) =>
       ENABLED InitStart(1, FALSE, FALSE)

C14_ProbeStep ==
  /\ probe' # probe =>
       UNCHANGED <<engine, runtimes, ini, gen, rst, everReady, lastSettled>>
  /\ ini' # ini => probe' = probe

\* C14: the capability probe never fails; it answers false when the GPU
\* interface is absent, when the adapter request throws or rejects and when
\* the adapter is null, and true only when an adapter was obtained; a probe
\* step changes nothing of the engine state, and initLLM can start whatever
\* the probe answered.
C14_CapabilityProbe == []C14_ProbeResult /\ [][C14_ProbeStep]_vars

\* the probe answered false on a rejected adapter request and initLLM is
\* nevertheless creating an engine
C14_Witness ==
  /\ probe.pc = "done"
  /\ probe.hasGpu
  /\ probe.outcome = "reject"
  /\ ~probe.result
  /\ ini[1].pc = "worker"

\* ---------------------------------------------------------------------- C15
C15_RelayState == relay.handled \o relay.inbox = relay.posted

C15_RelayStep ==
  relay'.handled # relay.handled =>
    /\ relay.inbox # <<>>
    /\ relay'.handled = Append(relay.handled, Head(relay.inbox))
    /\ relay'.posted = relay.posted

\* C15: the worker hands every message it receives to its one handler
\* exactly once, unchanged and in arrival order: what the handler has been
\* given, followed by what is still queued, is what was posted, and each
\* delivery gives the handler exactly the oldest queued message.
C15_TransparentRelay == []C15_RelayState /\ [][C15_RelayStep]_vars

\* three messages posted, two of them of the same kind; the handler has
\* been given the first two and the third is still queued
C15_Witness ==
  /\ relay.posted = <<"resetChat", "reload", "resetChat">>
  /\ relay.handled = <<"resetChat", "reload">>
  /\ relay.inbox = <<"resetChat">>

\* ---------------------------------------------------------------------- C16
\* the lifecycle state, read off the initLLM calls: a pending call means
\* Initializing; otherwise the outcome of the call that settled last
Lifecycle ==
  IF \E i \in InitCalls : ~InitSettled(i) THEN "Initializing"
  ELSE IF lastSettled = 0 THEN "Uninitialized"
  ELSE IF ini[lastSettled].pc = "done" THEN "Ready"
  ELSE "InitFailed"

LifecycleEdges ==
  {<<"Uninitialized", "Initializing">>, <<"Initializing", "Ready">>,
   <<"Initializing", "InitFailed">>, <<"Ready", "Initializing">>,
   <<"InitFailed", "Initializing">>}

C16_LifecycleStep ==
  /\ Lifecycle' # Lifecycle => <<Lifecycle, Lifecycle'>> \in LifecycleEdges
  /\ (gen' # gen \/ rst' # rst) => (Lifecycle' = Lifecycle /\ engine' = engine)
  /\ engine' # engine => ini' # ini

C16_FreshInitReplaces ==
  /\ Lifecycle = "Ready" => (engine # NoEngine /\ runtimes[engine].loaded)
  /\ \A i \in InitCalls :
       (Lifecycle \in {"Ready", "InitFailed"} /\ lastSettled = i
          /\ ini[i].before # NoEngine) =>
         /\ engine # ini[i].before
         /\ engine = ini[i].inst

\* C16: the lifecycle moves only along Uninitialized -> Initializing ->
\* Ready, Initializing -> InitFailed and back into Initializing by a fresh
\* initLLM call; no step of generate or resetChat changes the lifecycle
\* state or the handle; and once an initLLM call issued while a handle was
\* installed has finished, the handle is that call's own new instance, never
\* the one installed before it.
C16_Lifecycle == []C16_FreshInitReplaces /\ [][C16_LifecycleStep]_vars

\* a second initLLM call, issued in Ready, has completed on the worker path
\* and the handle is a different, loaded instance
C16_Witness ==
  /\ ini[1].pc = "done"
  /\ ini[2].pc = "done"
  /\ ini[2].path = "worker"
  /\ ini[2].before = ini[1].inst
  /\ engine = ini[2].inst
  /\ engine # ini[1].inst
  /\ gen[1].pc = "returned"

\* ---------------------------------------------------------------------- C17
C17_HandleStep ==
  /\ engine # NoEngine => engine' # NoEngine
  /\ \A g \in GenCalls :
       (gen'[g] # gen[g] /\ gen'[g].pc = "notReady") => engine = NoEngine

C17_HandleState ==
  /\ (everReady \/ \E i \in InitCalls : ini[i].path = "fallback") =>
       engine # NoEngine
  /\ engine # NoEngine => engine \in DOMAIN runtimes

\* C17: once the handle has been assigned it is never null again, whatever
\* initLLM (successful or failed), generate and resetChat calls follow, and
\* a generate call that fails with 'LLM not initialised' was made while the
\* handle had never been assigned.
C17_HandleNeverNullAgain == []C17_HandleState /\ [][C17_HandleStep]_vars

\* after a successful initLLM a second one has failed on both paths and a
\* later generate call was still submitted to the handle
C17_Witness ==
  /\ ini[1].pc = "done"
  /\ ini[2].pc = "failed"
  /\ lastSettled = 2
  /\ rst.done
  /\ gen[1].eng = ini[2].inst
  /\ gen[1].pc = "aborted"

\* ---------------------------------------------------------------------- C18
\* a step of generate caller g
GenMoved(g) == gen'[g] # gen[g]

C18_OwnAccumulator ==
  \A g \in GenCalls :
    /\ gen[g].fullResponse = Concat(gen[g].delivered)
    /\ \A k \in 1..Len(gen[g].delivered) :
         \E chunk \in OverlapChunks(g) : gen[g].delivered[k] = chunk.content
    /\ gen[g].pc = "returned" =>
         /\ gen[g].result = Concat(gen[g].delivered)
         /\ Len(gen[g].delivered) = Len(gen[g].produced)

C18_OverlapStep ==
  \A g, h \in GenCalls :
    (g # h /\ GenMoved(g)) =>
      /\ gen'[h] = gen[h]
      /\ gen'[g].pc \in {"streaming", "aborted", "resetting", "returned"} =>
           gen'[g].eng = gen[g].eng

\* C18: when two generate calls overlap, each keeps its own accumulator:
\* a step of one call leaves the other call's accumulator and delivered
\* fragments untouched, every fragment a call delivered came from its own
\* stream, and each call returns the concatenation of exactly the
\* fragments delivered to its own onToken.
C18_IndependentAccumulators == []C18_OwnAccumulator /\ [][C18_OverlapStep]_vars

\* the two calls overlap on one engine: one has returned after its reset,
\* which emptied the conversation the other's request was appended to,
\* while the other is still streaming
C18_Witness ==
  /\ gen[1].pc = "streaming"
  /\ gen[2].pc = "returned"
  /\ gen[1].eng = gen[2].eng
  /\ gen[2].convAtSubmit # <<>>
  /\ gen[1].delivered = <<<<"a">>>>
  /\ gen[2].result = <<"b", "c">>
  /\ runtimes[gen[1].eng].conv = <<>>

\* ---------------------------------------------------------------------- C19
\* both callers have made a call and every call has resolved
BothDone == \A i \in InitCalls : ini[i].pc = "done"

\* the last event of a call that supplied a progress callback
EmitsReadyLast(call) ==
  call.sink =>
    /\ call.events # <<>>
    /\ Last(call.events)[1] = 100
    /\ \A k \in 1..(Len(call.events) - 1) : call.events[k][1] # 100

C20_Shown ==
  bubble.mounted =>
    LET message == bubble.message
        view == bubble.view IN
      /\ view.sources # <<>> =>
           /\ message.role = "assistant"
           /\ message.isStreaming # "true"
           /\ message.sources.defined
           /\ view.sources = message.sources.items
      /\ view.toggle =>
           /\ message.role = "assistant"
           /\ message.isStreaming # "true"
           /\ message.contextChunks.defined
           /\ message.contextChunks.items # <<>>
      /\ view.chunks # <<>> =>
           /\ view.toggle
           /\ bubble.showContext
           /\ view.chunks = message.contextChunks.items
      /\ bubble.showContext = (bubble.clicks % 2 = 1)

C20_ToggleStep ==
  /\ (~bubble.mounted /\ bubble'.mounted) =>
       (~bubble'.showContext /\ bubble'.view.chunks = <<>>)
  /\ (bubble.mounted /\ bubble'.mounted) =>
       IF bubble'.clicks # bubble.clicks
         THEN /\ bubble.view.toggle
              /\ bubble'.showContext = ~bubble.showContext
              /\ bubble'.message = bubble.message
         ELSE bubble'.showContext = bubble.showContext

\* C20: the sources list and the context section are rendered only for an
\* assistant message that is not streaming and whose list has entries; the
\* context panel starts closed, every click on the toggle flips it and
\* nothing else changes it, and chunk contents are rendered only while the
\* section is shown and the panel is open.
C20_BubbleVisibility == []C20_Shown /\ [][C20_ToggleStep]_vars

\* the panel was opened and closed and opened again, and the chunks are
\* rendered together with the sources
C20_Witness ==
  /\ bubble.mounted
  /\ bubble.clicks = 3
  /\ bubble.showContext
  /\ bubble.view.chunks = <<"c1", "c2">>
  /\ bubble.view.sources = <<"s1", "s2">>

====
